---- MODULE Spec2Model ----
(***************************************************************************)
(* Blob-OSC: the ByteTrack lifecycle manager of blob_osc/bytetrack.py.     *)
(*                                                                         *)
(* Numbers.  Box coordinates are even integers, so that every centre       *)
(* (x1+x2)/2 and every half width w/2 the code computes is an integer and  *)
(* the float arithmetic of the code is exact.  Scores and thresholds are   *)
(* in tenths (0.5 is 5, 0.9 is 9).  An IoU and a cost are exact fractions  *)
(* <<numerator, denominator>> with a positive denominator.  Python's       *)
(* 0-based list indices are 1-based here.                                  *)
(***************************************************************************)
EXTENDS Integers, Sequences, FiniteSets, TLC

\* ---------------------------------------------------------------- bounds
MaxFrames == 5
MaxDets == 2
TrackBuffer == 2
MaxSide == 2
MaxCentroids == 2
MaxAge == 2
MaxCalls == 5
MaxBlobs == 2
MaxImages == 3
MaxTwinFrames == 3
MaxCaptures == 4
MaxGets == 3

\* ------------------------------------------------------- program constants
New == 0
Tracked == 1
Lost == 2
Removed == 3

\* track_thresh = 0.5 and match_thresh = 0.8 (the defaults), in tenths
track_thresh == 5
match_thresh == 8
\* the threshold of the second and of the lost-pool association, 0.5
second_thresh == 5
\* the denominator of max(union, 1e-6)
EpsilonInv == 1000000
max_distance == 50
default_max_age == 5
association_radius == 100
Infinity == 1000000
\* Queue(maxsize=2)
maxsize == 2

\* ------------------------------------------------------------------ inputs
BoxA == <<0, 0, 10, 10>>
BoxB == <<4, 0, 14, 10>>
BoxS == <<0, 0, 2, 4>>
Boxes == {BoxA, BoxB, BoxS}
Scores == {4, 9}
Detection == [bbox : Boxes, score : Scores]
MinBoxAreas == {10, 100}

DetectionLists == UNION {[1..n -> Detection] : n \in 0..MaxDets}

\* --------------------------------------------------------------- helpers
Max(a, b) == IF a >= b THEN a ELSE b
Min(a, b) == IF a <= b THEN a ELSE b

Range(s) == {s[i] : i \in 1..Len(s)}

RECURSIVE SeqMap(_, _)
\* [ s[idx[1]], s[idx[2]], ... ]
SeqMap(s, idx) ==
    IF idx = <<>> THEN <<>> ELSE <<s[Head(idx)]>> \o SeqMap(s, Tail(idx))

RECURSIVE RemoveFirst(_, _)
\* list.remove(x)
RemoveFirst(s, x) ==
    IF s = <<>> THEN <<>>
    ELSE IF Head(s) = x THEN Tail(s)
    ELSE <<Head(s)>> \o RemoveFirst(Tail(s), x)

Indices(s) == [i \in 1..Len(s) |-> i]

\* ------------------------------------------------------------------ Track
bbox_area(b) == (b[3] - b[1]) * (b[4] - b[2])

\* Track.__post_init__: mean = [cx, cy, w, h, 0, 0, 0, 0]; the covariance
\* 1000 * I * 1.1^cov is kept as the exponent cov
InitialMean(b) ==
    <<(b[1] + b[3]) \div 2, (b[2] + b[4]) \div 2, b[3] - b[1], b[4] - b[2],
      0, 0, 0, 0>>

next_track_id_same(count) == count

next_track_id(count) == count + 1

NewTrack(id, det, frame) ==
    [track_id |-> id, bbox |-> det.bbox, score |-> det.score,
     state |-> Tracked, frame_id |-> frame, start_frame |-> frame,
     tracklet_len |-> 1, mean |-> InitialMean(det.bbox), cov |-> 0]

predict(t) ==
    [t EXCEPT !.mean = <<t.mean[1] + t.mean[5], t.mean[2] + t.mean[6],
                         t.mean[3] + t.mean[7], t.mean[4] + t.mean[8],
                         t.mean[5], t.mean[6], t.mean[7], t.mean[8]>>,
              !.cov = t.cov + 1]

track_update_nolen(t, det, frame) ==
    LET b  == det.bbox
        cx == (b[1] + b[3]) \div 2
        cy == (b[2] + b[4]) \div 2
        w  == b[3] - b[1]
        h  == b[4] - b[2]
    IN  [t EXCEPT !.mean = <<cx, cy, w, h, cx - t.mean[1], cy - t.mean[2],
                             w - t.mean[3], h - t.mean[4]>>,
                  !.bbox = b,
                  !.score = det.score,
                  !.state = Tracked,
                  !.frame_id = frame]

\* Track.update followed by the two assignments every caller in
\* BYTETracker.update makes: state = TRACKED, frame_id = self.frame_id
track_update(t, det, frame) ==
    LET b  == det.bbox
        cx == (b[1] + b[3]) \div 2
        cy == (b[2] + b[4]) \div 2
        w  == b[3] - b[1]
        h  == b[4] - b[2]
    IN  [t EXCEPT !.mean = <<cx, cy, w, h, cx - t.mean[1], cy - t.mean[2],
                             w - t.mean[3], h - t.mean[4]>>,
                  !.bbox = b,
                  !.score = det.score,
                  !.tracklet_len = t.tracklet_len + 1,
                  !.state = Tracked,
                  !.frame_id = frame]

get_bbox_uncertain(t) ==
    <<t.mean[1] - t.mean[3] \div 2 - t.cov, t.mean[2] - t.mean[4] \div 2 - t.cov,
      t.mean[1] + t.mean[3] \div 2 + t.cov, t.mean[2] + t.mean[4] \div 2 + t.cov>>

get_bbox(t) ==
    <<t.mean[1] - t.mean[3] \div 2, t.mean[2] - t.mean[4] \div 2,
      t.mean[1] + t.mean[3] \div 2, t.mean[2] + t.mean[4] \div 2>>

\* --------------------------------------------------------- cost matrix
\* intersection / max(union, 1e-6) as a fraction
calculate_iou(a, b) ==
    LET x1 == Max(a[1], b[1])
        y1 == Max(a[2], b[2])
        x2 == Min(a[3], b[3])
        y2 == Min(a[4], b[4])
        intersection == Max(0, x2 - x1) * Max(0, y2 - y1)
        union == bbox_area(a) + bbox_area(b) - intersection
    IN  IF union >= 1 THEN <<intersection, union>>
        ELSE <<intersection * EpsilonInv, 1>>

\* cost = 1 - iou
calculate_cost(t, det) ==
    LET iou == calculate_iou(get_bbox(t), det.bbox)
    IN  <<iou[2] - iou[1], iou[2]>>

\* cost_matrix[t, d] for the track list ts and the detection list ds
calculate_cost_matrix(ts, ds) ==
    [i \in 1..Len(ts) |-> [j \in 1..Len(ds) |-> calculate_cost(ts[i], ds[j])]]

CostLess(c1, c2) == c1[1] * c2[2] < c2[1] * c1[2]
\* cost <= thresh, thresh in tenths
CostWithin(c, thresh) == c[1] * 10 <= thresh * c[2]

\* ------------------------------------------------------ greedy assignment
\* the cells (t, d) in the order the two nested for loops visit them
RECURSIVE CellsOf(_, _, _)
CellsOf(uts, uds, row) ==
    IF uts = <<>> THEN <<>>
    ELSE IF row = <<>> THEN CellsOf(Tail(uts), uds, uds)
    ELSE <<<<Head(uts), Head(row)>>>> \o CellsOf(uts, uds, Tail(row))

BestCell_first(cm, cells, best) == Head(cells)

\* the scan for the minimum: a later cell replaces the best one only when
\* its cost is strictly smaller (min_cost starts at infinity)
RECURSIVE BestCell(_, _, _)
BestCell(cm, cells, best) ==
    IF cells = <<>> THEN best
    ELSE LET c == Head(cells)
         IN  IF best = <<>> \/ CostLess(cm[c[1]][c[2]], cm[best[1]][best[2]])
             THEN BestCell(cm, Tail(cells), c)
             ELSE BestCell(cm, Tail(cells), best)

RECURSIVE GreedyLoop(_, _, _, _, _)
GreedyLoop(cm, thresh, matched, uts, uds) ==
    IF uts = <<>> \/ uds = <<>>
    THEN [matched |-> matched, unmatched_detections |-> uds,
          unmatched_tracks |-> uts]
    ELSE LET best == BestCell(cm, CellsOf(uts, uds, uds), <<>>)
         IN  IF CostWithin(cm[best[1]][best[2]], thresh)
             THEN GreedyLoop(cm, thresh, Append(matched, best),
                             RemoveFirst(uts, best[1]), RemoveFirst(uds, best[2]))
             ELSE [matched |-> matched, unmatched_detections |-> uds,
                   unmatched_tracks |-> uts]

\* cm is a function over 1..rows, each row a function over 1..cols
greedy_assignment(cm, rows, cols, thresh) ==
    IF rows = 0 \/ cols = 0
    THEN [matched |-> <<>>, unmatched_detections |-> <<>>,
          unmatched_tracks |-> <<>>]
    ELSE GreedyLoop(cm, thresh, <<>>, [i \in 1..rows |-> i],
                    [j \in 1..cols |-> j])

\* ------------------------------------------------------- optimal solver
RECURSIVE GCD(_, _)
GCD(a, b) == IF b = 0 THEN a ELSE GCD(b, a % b)

Abs(a) == IF a < 0 THEN 0 - a ELSE a

FracNorm(f) ==
    LET g == GCD(Abs(f[1]), f[2]) IN <<f[1] \div g, f[2] \div g>>

FracAdd(a, b) == FracNorm(<<a[1] * b[2] + b[1] * a[2], a[2] * b[2]>>)

FracLE(a, b) == a[1] * b[2] <= b[1] * a[2]

\* lapjv(cost, extend_cost=True, cost_limit=thresh) solves the assignment
\* on the matrix extended with cells of cost thresh/2: leaving a row and a
\* column unassigned costs thresh, assigning them costs cost[i][j].  x[i]
\* is the column of row i, 0 for none (-1 in the code).
Assignments(rows, cols) ==
    {x \in [1..rows -> 0..cols] :
        \A i, k \in 1..rows : (i # k /\ x[i] # 0) => x[i] # x[k]}

RECURSIVE AssignmentGain(_, _, _, _)
\* the sum over the assigned rows 1..i of cost - thresh
AssignmentGain(cm, thresh, x, i) ==
    IF i = 0 THEN <<0, 1>>
    ELSE LET rest == AssignmentGain(cm, thresh, x, i - 1)
         IN  IF x[i] = 0 THEN rest
             ELSE LET c == cm[i][x[i]]
                  IN  FracAdd(rest,
                              FracNorm(<<10 * c[1] - thresh * c[2], 10 * c[2]>>))

MinimalGain(gain) ==
    {x \in DOMAIN gain : \A y \in DOMAIN gain : FracLE(gain[x], gain[y])}

lapjv(cm, rows, cols, thresh) ==
    UNION {MinimalGain(gain) :
              gain \in {[x \in Assignments(rows, cols) |->
                            AssignmentGain(cm, thresh, x, rows)]}}

SolverResult_strict(cm, rows, cols, thresh, x) ==
    LET hit(i) == x[i] # 0 /\ CostLess(cm[i][x[i]], <<thresh, 10>>)
    IN  [matched |-> SeqMap([i \in 1..rows |-> <<i, x[i]>>],
                            SelectSeq([i \in 1..rows |-> i], hit)),
         unmatched_tracks |->
             SelectSeq([i \in 1..rows |-> i], LAMBDA i : ~hit(i)),
         unmatched_detections |->
             SelectSeq([j \in 1..cols |-> j],
                       LAMBDA j : \A i \in 1..rows : x[i] # j)]

\* the three lists _associate builds from col_indices
SolverResult(cm, rows, cols, thresh, x) ==
    LET hit(i) == x[i] # 0 /\ CostWithin(cm[i][x[i]], thresh)
    IN  [matched |-> SeqMap([i \in 1..rows |-> <<i, x[i]>>],
                            SelectSeq([i \in 1..rows |-> i], hit)),
         unmatched_tracks |->
             SelectSeq([i \in 1..rows |-> i], LAMBDA i : ~hit(i)),
         unmatched_detections |->
             SelectSeq([j \in 1..cols |-> j],
                       LAMBDA j : \A i \in 1..rows : x[i] # j)]

associate_matrix_nofallback(cm, rows, cols, thresh, use_lap) ==
    IF rows = 0 \/ cols = 0 \/ ~use_lap
    THEN {[matched |-> <<>>, unmatched_detections |-> [j \in 1..cols |-> j],
           unmatched_tracks |-> [i \in 1..rows |-> i]]}
    ELSE {SolverResult(cm, rows, cols, thresh, x) :
             x \in lapjv(cm, rows, cols, thresh)}

\* _associate from its first line on, for rows tracks, cols detections and
\* their cost matrix cm: the early return, the solver branch when the
\* solver is used and returns (use_lap), the greedy assignment when it is
\* not available or raises; every result the call can return
associate_matrix(cm, rows, cols, thresh, use_lap) ==
    IF rows = 0 \/ cols = 0
    THEN {[matched |-> <<>>, unmatched_detections |-> [j \in 1..cols |-> j],
           unmatched_tracks |-> [i \in 1..rows |-> i]]}
    ELSE IF use_lap
    THEN {SolverResult(cm, rows, cols, thresh, x) :
             x \in lapjv(cm, rows, cols, thresh)}
    ELSE {greedy_assignment(cm, rows, cols, thresh)}

\* _associate on the track list ts and the detection list ds
associate_with(ts, ds, thresh, use_lap) ==
    UNION {associate_matrix(cm, Len(ts), Len(ds), thresh, use_lap) :
              cm \in {calculate_cost_matrix(ts, ds)}}

\* _associate: the solver is tried when lap was imported, and any exception
\* of it leads to the greedy assignment
associate(ts, ds, thresh, lap_available) ==
    associate_with(ts, ds, thresh, FALSE)
    \cup (IF lap_available THEN associate_with(ts, ds, thresh, TRUE) ELSE {})

\* ------------------------------------------------------------------ state
VARIABLES
    track_buffer,      \* BYTETracker.track_buffer
    min_box_area,      \* BYTETracker.min_box_area
    LAP_AVAILABLE,     \* whether "from lap import lapjv" succeeded
    frame_id,          \* BYTETracker.frame_id
    tracked_tracks,    \* BYTETracker.tracked_tracks
    lost_tracks,       \* BYTETracker.lost_tracks
    removed_tracks,    \* BYTETracker.removed_tracks
    track_id_count,    \* BYTETracker.track_id_count
    detections,        \* the argument of the last update call
    returned,          \* the list the last update call returned
    last_op,           \* "init", "update" or "reset"
    calls,             \* history: the update calls since construction or reset
    issued,            \* history: the track ids given out since construction or reset
    assoc,             \* history: which detection of the last frame went to which track
    uniform,           \* history: every update call so far had the argument detections
    scen,              \* history: the calls so far are the first scen calls of Scenario
    occl               \* history: a lone track, its empty frames and its reappearance

\* the arguments and results of direct calls of the two assignment routines
VARIABLES
    a_rows,            \* len(tracks), cost_matrix.shape[0] when not empty
    a_cols,            \* len(detections), cost_matrix.shape[1] when not empty
    a_cost,            \* cost_matrix
    a_thresh,          \* thresh, in tenths
    a_result,          \* <<what the last _associate call returned>>, <<>> before
    a_greedy,          \* <<what _greedy_assignment returned>>, <<>> before
    a_attempted,       \* the last _associate call called lapjv
    a_raise,           \* lapjv raised in the last _associate call
    a_prev_raise       \* lapjv raised in the _associate call before the last

assignVars == <<a_rows, a_cols, a_cost, a_thresh, a_result, a_greedy,
                a_attempted, a_raise, a_prev_raise>>

\* the fallback centroid tracker (processor.BlobTracker)
VARIABLES
    max_age,           \* BlobTracker.max_age
    next_id,           \* BlobTracker.next_id
    tracked_blobs,     \* BlobTracker.tracked_blobs, in the dict's key order
    active_tracks,     \* the mapping the last BlobTracker.update returned
    centroids,         \* the argument of the last BlobTracker.update
    b_last,            \* "init", "update" or "reset"
    b_calls,           \* history: the update calls since construction or reset
    b_issued,          \* history: the ids given out since construction or reset
    b_prev_active,     \* history: the mapping the call before the last returned
    b_empty_run,       \* history: the last calls in a row without a detection
    b_evicted          \* history: the id and centre of every entry deleted for its age

fallbackVars == <<max_age, next_id, tracked_blobs, active_tracks, centroids, b_last,
                  b_calls, b_issued, b_prev_active, b_empty_run, b_evicted>>

\* the id reconciliation called directly, and ImageProcessor.process_image
VARIABLES
    c_tracks,          \* the argument tracks of _convert_tracks_to_blobs
    c_blobs,           \* its argument original_blobs
    c_out,             \* <<the list it returned>>, <<>> before the call
    bytetrack_ready,   \* ImageProcessor.bytetrack_tracker is not None
    p_blobs,           \* the blobs process_image built from the last frame
    p_out,             \* the blobs the last process_image call returned
    p_path,            \* "none", "index", "bytetrack" or "fallback"
    p_attempted,       \* the last call entered the try block
    p_fault,           \* what raised in it: "none", "update" or "convert"
    p_prev_fault,      \* p_fault of the call before the last
    p_request,         \* the tracking flags of the last call
    p_frames           \* history: the frames since construction or reset

convertVars == <<c_tracks, c_blobs, c_out>>

\* CameraManager: the capture thread and a caller of get_frame; a frame is
\* the number of the read that produced it, 0 stands for None
VARIABLES
    frame_queue,       \* CameraManager.frame_queue, oldest frame first
    frame_count,       \* CameraManager.frame_count
    dropped_frames,    \* CameraManager.dropped_frames
    k_pc,              \* where _capture_loop is: "read", "put", "count" or "drop"
    k_frame,           \* its local variable frame
    k_captured,        \* history: the frames read so far
    k_handled,         \* history: the last frame put_nowait was called with
    g_pc,              \* where get_frame is: "idle", "test", "get" or "return"
    g_frame,           \* its local variable frame
    g_seen,            \* history: k_handled when the running call started
    g_result,          \* what the last finished call returned
    g_calls            \* history: the calls of get_frame started

cameraVars == <<frame_queue, frame_count, dropped_frames, k_pc, k_frame,
                k_captured, k_handled, g_pc, g_frame, g_seen, g_result, g_calls>>
pipelineVars == <<bytetrack_ready, p_blobs, p_out, p_path, p_attempted,
                  p_fault, p_prev_fault, p_request, p_frames>>

config == <<track_buffer, min_box_area, LAP_AVAILABLE>>
tracker == <<frame_id, tracked_tracks, lost_tracks, removed_tracks, track_id_count>>
vars == <<track_buffer, min_box_area, LAP_AVAILABLE, frame_id, tracked_tracks,
          lost_tracks, removed_tracks, track_id_count, detections, returned,
          last_op, calls, issued, assoc, uniform, scen, occl, assignVars, fallbackVars,
          convertVars, pipelineVars, cameraVars>>

\* the variables of the other components, which a tracker call leaves alone
otherVars == <<assignVars, fallbackVars, convertVars, pipelineVars, cameraVars>>

\* ----------------------------------------------------- BYTETracker.update
next_frame_id_twice(f) == f + 2

\* self.frame_id += 1
next_frame_id(f) == f + 1

\* the frames of the concrete scenario: box (0,0,10,10) with score 0.9
\* twice, three empty frames, the same detection again
ScenarioDet == [bbox |-> BoxA, score |-> 9]
Scenario == <<  <<ScenarioDet>>, <<ScenarioDet>>, <<>>, <<>>, <<>>, <<ScenarioDet>>  >>

NoOccl == [id |-> -1, bbox |-> <<>>, k |-> 0, re_id |-> -1, re_k |-> 0, re_new |-> 0]

\* the history of a track that was alone in the returned list: k counts the
\* calls with no detection at all since then; re_id, re_k and re_new record
\* that the last call offered exactly its last box again, with a high score,
\* after re_k >= 1 such calls, and how many ids that call issued
NextOccl(o, dets, ret, new_ids) ==
    LET again == /\ o.id # -1 /\ o.k >= 1 /\ Len(dets) = 1
                 /\ dets[1].bbox = o.bbox /\ dets[1].score >= track_thresh
        re == IF again THEN [re_id |-> o.id, re_k |-> o.k, re_new |-> new_ids]
              ELSE [re_id |-> -1, re_k |-> 0, re_new |-> 0]
    IN  IF Len(ret) = 1
        THEN [id |-> ret[1].track_id, bbox |-> ret[1].bbox, k |-> 0,
              re_id |-> re.re_id, re_k |-> re.re_k, re_new |-> re.re_new]
        ELSE IF dets = <<>> /\ o.id # -1
        THEN [id |-> o.id, bbox |-> o.bbox, k |-> o.k + 1,
              re_id |-> -1, re_k |-> 0, re_new |-> 0]
        ELSE [id |-> -1, bbox |-> <<>>, k |-> 0,
              re_id |-> re.re_id, re_k |-> re.re_k, re_new |-> re.re_new]
area_accepted_strict(det, mba) == bbox_area(det.bbox) > mba

area_accepted(det, mba) == bbox_area(det.bbox) >= mba

low_confidence_any(det) == TRUE

\* the else branch of if det.score >= self.track_thresh
low_confidence(det) == ~(det.score >= track_thresh)

\* the two lists of the filter, as indices into the argument
filter_detections(dets, mba) ==
    [valid |-> SelectSeq(Indices(dets),
                  LAMBDA i : area_accepted(dets[i], mba) /\ dets[i].score >= track_thresh),
     low   |-> SelectSeq(Indices(dets),
                  LAMBDA i : area_accepted(dets[i], mba) /\ low_confidence(dets[i]))]

\* for track_idx, det_idx in matched: track.update(dets[det_idx]) ...
\* on the tracks ts[sel[1]], ts[sel[2]], ... ; didx maps a column of the
\* association to an index of the argument
apply_matches(ts, sel, matched, didx, dets, frame) ==
    [i \in 1..Len(ts) |->
        IF \E k \in 1..Len(matched) : sel[matched[k][1]] = i
        THEN LET k == CHOOSE k \in 1..Len(matched) : sel[matched[k][1]] = i
             IN  track_update(ts[i], dets[didx[matched[k][2]]], frame)
        ELSE ts[i]]

mark_lost_none(ts, sel, unmatched) == ts

\* for track_idx in unmatched_tracks_low: track.state = LOST
mark_lost(ts, sel, unmatched) ==
    [i \in 1..Len(ts) |->
        IF \E k \in 1..Len(unmatched) : sel[unmatched[k]] = i
        THEN [ts[i] EXCEPT !.state = Lost]
        ELSE ts[i]]

create_tracks_none(remaining, dets, count, frame) ==
    [tracks |-> <<>>, count |-> count, born |-> {}]

RECURSIVE create_tracks_any(_, _, _, _)
create_tracks_any(remaining, dets, count, frame) ==
    IF remaining = <<>> THEN [tracks |-> <<>>, count |-> count, born |-> {}]
    ELSE LET d == dets[Head(remaining)]
             rest == create_tracks_any(Tail(remaining), dets,
                                       next_track_id(count), frame)
         IN  [tracks |-> <<NewTrack(count, d, frame)>> \o rest.tracks,
              count  |-> rest.count,
              born   |-> {[det |-> Head(remaining), track_id |-> count,
                           stage |-> "new"]} \cup rest.born]

RECURSIVE create_tracks(_, _, _, _)
\* for detection in remaining_detections: if score >= track_thresh: ...
create_tracks(remaining, dets, count, frame) ==
    IF remaining = <<>> THEN [tracks |-> <<>>, count |-> count, born |-> {}]
    ELSE LET d == dets[Head(remaining)]
         IN  IF d.score >= track_thresh
             THEN LET rest == create_tracks(Tail(remaining), dets,
                                            next_track_id(count), frame)
                  IN  [tracks |-> <<NewTrack(count, d, frame)>> \o rest.tracks,
                       count  |-> rest.count,
                       born   |-> {[det |-> Head(remaining), track_id |-> count,
                                    stage |-> "new"]} \cup rest.born]
             ELSE create_tracks(Tail(remaining), dets, count, frame)

second_stage_tracks_all(ts, r) == Indices(ts)

\* unmatched_tracked_tracks = [self.tracked_tracks[i] for i in
\* unmatched_tracks]: the indices of the tracks the second stage is offered
second_stage_tracks(ts, r) == r.unmatched_tracks

IsTracked(t) == t.state = Tracked
IsLost(t) == t.state = Lost

move_lost_first(tt, lost) ==
    [tracked |-> SelectSeq(tt, IsTracked),
     lost    |-> lost \o SelectSeq(tt, IsLost)]

\* self.tracked_tracks = [t for t in self.tracked_tracks if TRACKED]
\* self.lost_tracks.extend([t for t in self.tracked_tracks if LOST])
move_lost(tt, lost) ==
    LET kept == SelectSeq(tt, IsTracked)
    IN  [tracked |-> kept, lost |-> lost \o SelectSeq(kept, IsLost)]

expired_at(age, buffer) == ~(age <= buffer)

\* the loop over self.lost_tracks that archives the old ones
prune_lost(lost, removed, frame, buffer) ==
    [lost    |-> SelectSeq(lost,
                    LAMBDA t : ~expired_at(frame - t.frame_id, buffer)),
     removed |-> removed \o
                 [i \in 1..Len(SelectSeq(lost,
                        LAMBDA t : expired_at(frame - t.frame_id, buffer))) |->
                    [SelectSeq(lost,
                        LAMBDA t : expired_at(frame - t.frame_id, buffer))[i]
                     EXCEPT !.state = Removed]]]

\* One call of update(dets) on a tracker with the pools tt, lt and rt, the
\* counters count and fid and the configuration mba, buffer, lap: every
\* result the call can have (one for each choice of the solver among equally
\* good assignments).  Every intermediate list of the method is bound once,
\* in the order the method computes it; r1, r2 and r3 are the results of its
\* three _associate calls.
update_outcomes(tt, lt, rt, count, fid, mba, buffer, lap, dets) ==
    LET frame == next_frame_id(fid)
        f == filter_detections(dets, mba)
        tt1 == [i \in 1..Len(tt) |-> predict(tt[i])]
    IN  UNION {
        LET tt2 == apply_matches(tt1, Indices(tt1), r1.matched, f.valid, dets, frame)
            um == second_stage_tracks(tt1, r1)
        IN  UNION {
            LET tt3 == apply_matches(tt2, um, r2.matched, f.low, dets, frame)
                remaining == SeqMap(f.valid, r1.unmatched_detections)
                             \o SeqMap(f.low, r2.unmatched_detections)
                tt4 == mark_lost(tt3, um, r2.unmatched_tracks)
                cr == create_tracks(remaining, dets, count, frame)
                mv == move_lost(tt4 \o cr.tracks, lt)
            IN  {LET lost2 == apply_matches(mv.lost, Indices(mv.lost), r3.matched,
                                            remaining, dets, frame)
                     tracked2 == mv.tracked \o
                         SeqMap(lost2, [k \in 1..Len(r3.matched) |-> r3.matched[k][1]])
                     pr == prune_lost(SelectSeq(lost2, IsLost), rt, frame, buffer)
                 IN  [frame_id |-> frame,
                      tracked_tracks |-> tracked2,
                      lost_tracks |-> pr.lost,
                      removed_tracks |-> pr.removed,
                      track_id_count |-> cr.count,
                      returned |-> SelectSeq(tracked2, IsTracked),
                      created |-> [k \in 1..Len(cr.tracks) |-> cr.tracks[k].track_id],
                      assoc |-> {[det |-> f.valid[r1.matched[k][2]],
                                  track_id |-> tt1[r1.matched[k][1]].track_id,
                                  stage |-> "high"] : k \in 1..Len(r1.matched)}
                            \cup {[det |-> f.low[r2.matched[k][2]],
                                   track_id |-> tt2[um[r2.matched[k][1]]].track_id,
                                   stage |-> "low"] : k \in 1..Len(r2.matched)}
                            \cup cr.born
                            \cup {[det |-> remaining[r3.matched[k][2]],
                                   track_id |-> mv.lost[r3.matched[k][1]].track_id,
                                   stage |-> "revive"] : k \in 1..Len(r3.matched)}]
                 : r3 \in (IF mv.lost # <<>> /\ remaining # <<>>
                           THEN associate(mv.lost, SeqMap(dets, remaining),
                                          second_thresh, lap)
                           ELSE {[matched |-> <<>>, unmatched_detections |-> <<>>,
                                  unmatched_tracks |-> <<>>]})}
            : r2 \in (IF f.low # <<>>
                      THEN associate(SeqMap(tt2, um), SeqMap(dets, f.low),
                                     second_thresh, lap)
                      ELSE {[matched |-> <<>>, unmatched_detections |-> <<>>,
                             unmatched_tracks |-> Indices(um)]})}
        : r1 \in associate(tt1, SeqMap(dets, f.valid), match_thresh, lap)}

\* update(dets) on this tracker
UpdateWith(dets) ==
    \E o \in update_outcomes(tracked_tracks, lost_tracks, removed_tracks,
                             track_id_count, frame_id, min_box_area,
                             track_buffer, LAP_AVAILABLE, dets) :
        /\ frame_id' = o.frame_id
        /\ tracked_tracks' = o.tracked_tracks
        /\ lost_tracks' = o.lost_tracks
        /\ removed_tracks' = o.removed_tracks
        /\ track_id_count' = o.track_id_count
        /\ detections' = dets
        /\ returned' = o.returned
        /\ last_op' = "update"
        /\ calls' = calls + 1
        /\ uniform' = (calls = 0 \/ (uniform /\ dets = detections))
        /\ scen' = IF scen = calls /\ calls < Len(Scenario)
                       /\ dets = Scenario[calls + 1]
                    THEN scen + 1 ELSE -1
        /\ occl' = NextOccl(occl, dets, o.returned,
                            o.track_id_count - track_id_count)
        /\ issued' = issued \o o.created
        /\ assoc' = o.assoc
        /\ UNCHANGED config

\* update called on any detection list
Update ==
    /\ calls < MaxFrames
    /\ \E dets \in DetectionLists : UpdateWith(dets)
    /\ UNCHANGED otherVars

\* ------------------------------------------------------ BYTETracker.reset
reset_track_id_count_kept(count) == count

\* self.track_id_count = 0
reset_track_id_count(count) == 0

ResetCall ==
    /\ frame_id' = 0
    /\ tracked_tracks' = <<>>
    /\ lost_tracks' = <<>>
    /\ removed_tracks' = <<>>
    /\ track_id_count' = reset_track_id_count(track_id_count)
    /\ detections' = <<>>
    /\ returned' = <<>>
    /\ last_op' = "reset"
    /\ calls' = 0
    /\ issued' = <<>>
    /\ assoc' = {}
    /\ uniform' = TRUE
    /\ scen' = 0
    /\ occl' = NoOccl
    /\ UNCHANGED config

\* reset called on the tracker
Reset == ResetCall /\ UNCHANGED otherVars

\* no assignment routine has been called directly
AssignIdle ==
    /\ a_rows = 0
    /\ a_cols = 0
    /\ a_cost = <<>>
    /\ a_thresh = match_thresh
    /\ a_result = <<>>
    /\ a_greedy = <<>>
    /\ a_attempted = FALSE
    /\ a_raise = FALSE
    /\ a_prev_raise = FALSE

\* BlobTracker.__init__ after the assignment of max_age
BlobFresh ==
    /\ next_id = 0
    /\ tracked_blobs = <<>>
    /\ active_tracks = <<>>
    /\ centroids = <<>>
    /\ b_last = "init"
    /\ b_calls = 0
    /\ b_issued = <<>>
    /\ b_prev_active = <<>>
    /\ b_empty_run = 0
    /\ b_evicted = {}

\* self.tracker = BlobTracker() of ImageProcessor.__init__
FallbackIdle == max_age = default_max_age /\ BlobFresh

\* _convert_tracks_to_blobs has not been called directly
ConvertIdle ==
    /\ c_tracks = <<>>
    /\ c_blobs = <<>>
    /\ c_out = <<>>

\* ImageProcessor.__init__: no frame processed
PipelineIdle ==
    /\ p_blobs = <<>>
    /\ p_out = <<>>
    /\ p_path = "none"
    /\ p_attempted = FALSE
    /\ p_fault = "none"
    /\ p_prev_fault = "none"
    /\ p_request = [track_ids |-> FALSE, use_bytetrack |-> FALSE]
    /\ p_frames = 0

\* CameraManager.__init__, capture started, no frame read
CameraIdle ==
    /\ frame_queue = <<>>
    /\ frame_count = 0
    /\ dropped_frames = 0
    /\ k_pc = "read"
    /\ k_frame = 0
    /\ k_captured = 0
    /\ k_handled = 0
    /\ g_pc = "idle"
    /\ g_frame = 0
    /\ g_seen = 0
    /\ g_result = 0
    /\ g_calls = 0

OthersIdle ==
    /\ AssignIdle
    /\ FallbackIdle
    /\ ConvertIdle
    /\ bytetrack_ready = FALSE
    /\ PipelineIdle
    /\ CameraIdle

\* BYTETracker.__init__ with the thresholds at their defaults
Init ==
    /\ track_buffer = TrackBuffer
    /\ min_box_area \in MinBoxAreas
    /\ LAP_AVAILABLE \in BOOLEAN
    /\ frame_id = 0
    /\ tracked_tracks = <<>>
    /\ lost_tracks = <<>>
    /\ removed_tracks = <<>>
    /\ track_id_count = 0
    /\ detections = <<>>
    /\ returned = <<>>
    /\ last_op = "init"
    /\ calls = 0
    /\ issued = <<>>
    /\ assoc = {}
    /\ uniform = TRUE
    /\ scen = 0
    /\ occl = NoOccl
    /\ OthersIdle

Next == Update \/ Reset

Spec == Init /\ [][Next]_vars

\* ============================================= the assignment routines
\* _associate and _greedy_assignment applied to cost matrices of every
\* shape up to MaxSide x MaxSide over a few costs, with both thresholds
\* update passes (match_thresh and 0.5)
Costs == {<<0, 1>>, <<1, 2>>, <<3, 5>>, <<1, 1>>}

Thresholds == {second_thresh, match_thresh}

\* np.empty((0, 0)) when a list is empty (_calculate_cost_matrix)
CostMatrices(rows, cols) ==
    IF rows = 0 \/ cols = 0 THEN {<<>>}
    ELSE [1..rows -> [1..cols -> Costs]]

\* a tracker that is constructed and never called
TrackerIdle ==
    /\ track_buffer = TrackBuffer
    /\ min_box_area = 10
    /\ frame_id = 0
    /\ tracked_tracks = <<>>
    /\ lost_tracks = <<>>
    /\ removed_tracks = <<>>
    /\ track_id_count = 0
    /\ detections = <<>>
    /\ returned = <<>>
    /\ last_op = "init"
    /\ calls = 0
    /\ issued = <<>>
    /\ assoc = {}
    /\ uniform = TRUE
    /\ scen = 0
    /\ occl = NoOccl

trackerVars == <<config, tracker, detections, returned, last_op, calls,
                 issued, assoc, uniform, scen, occl>>

AssignInit ==
    /\ TrackerIdle
    /\ FallbackIdle
    /\ ConvertIdle
    /\ bytetrack_ready = FALSE
    /\ PipelineIdle
    /\ CameraIdle
    /\ LAP_AVAILABLE \in BOOLEAN
    /\ a_rows \in 0..MaxSide
    /\ a_cols \in 0..MaxSide
    /\ a_cost \in CostMatrices(a_rows, a_cols)
    /\ a_thresh \in Thresholds
    /\ a_result = <<>>
    /\ a_greedy = <<>>
    /\ a_attempted = FALSE
    /\ a_raise = FALSE
    /\ a_prev_raise = FALSE

\* one call _associate(tracks, detections, thresh); raises says whether
\* lapjv, when it is called, raises an exception
AssociateCall ==
    \E raises \in BOOLEAN :
    \E solver \in {LAP_AVAILABLE /\ a_rows # 0 /\ a_cols # 0} :
    \E r \in associate_matrix(a_cost, a_rows, a_cols, a_thresh,
                               solver /\ ~raises) :
        /\ a_result' = <<r>>
        /\ a_attempted' = solver
        /\ a_raise' = (solver /\ raises)
        /\ a_prev_raise' = a_raise
        /\ UNCHANGED <<a_rows, a_cols, a_cost, a_thresh, a_greedy>>
        /\ UNCHANGED <<trackerVars, fallbackVars, convertVars, pipelineVars, cameraVars>>

\* one call _greedy_assignment(cost_matrix, thresh)
GreedyCall ==
    /\ a_greedy' = <<greedy_assignment(a_cost, a_rows, a_cols, a_thresh)>>
    /\ UNCHANGED <<a_rows, a_cols, a_cost, a_thresh, a_result, a_attempted,
                   a_raise, a_prev_raise>>
    /\ UNCHANGED <<trackerVars, fallbackVars, convertVars, pipelineVars, cameraVars>>

AssignNext == AssociateCall \/ GreedyCall

SpecAssign == AssignInit /\ [][AssignNext]_vars

\* ====================================== the fallback centroid tracker
\* BlobTracker(max_distance=50.0, max_age=MaxAge) called with lists of at
\* most MaxCentroids detections (cx, cy, area) on three centres of one line:
\* 0 and 50 are within max_distance, 50 and 80 are, 0 and 80 are not
Centres == {<<0, 0>>, <<50, 0>>, <<80, 0>>}

Centroid == {<<c[1], c[2], 1000>> : c \in Centres}

CentroidLists == UNION {[1..n -> Centroid] : n \in 0..MaxCentroids}

\* (cx - track_cx)**2 + (cy - track_cy)**2, the square of dist
distance_sq(c, d) ==
    (c[1] - d[1]) * (c[1] - d[1]) + (c[2] - d[2]) * (c[2] - d[2])

distance_cell_unbounded(det, blob) == distance_sq(det, blob.center)

distance_cell_strict(det, blob) ==
    LET d == distance_sq(det, blob.center)
    IN  IF d < max_distance * max_distance THEN d ELSE Infinity

\* distances[i, j]: the squared distance when dist <= max_distance, else inf
distance_cell(det, blob) ==
    LET d == distance_sq(det, blob.center)
    IN  IF d <= max_distance * max_distance THEN d ELSE Infinity

evicted_early(age) == age >= max_age

\* self.tracked_blobs[blob_id]['age'] > self.max_age
evicted(age) == age > max_age

\* the loop that ages every entry and deletes the old ones
age_blobs(blobs) ==
    SelectSeq([k \in 1..Len(blobs) |-> [blobs[k] EXCEPT !.age = @ + 1]],
              LAMBDA b : ~evicted(b.age))

\* the scan of one row of distances for the nearest unused track: a later
\* track replaces the best one only when it is strictly nearer (min_dist
\* starts at inf); 0 stands for best_track_idx = -1
RECURSIVE best_track(_, _, _, _, _, _)
best_track(det, blobs, used, j, min_dist, best) ==
    IF j > Len(blobs) THEN best
    ELSE IF j \notin used /\ distance_cell(det, blobs[j]) < min_dist
    THEN best_track(det, blobs, used, j + 1, distance_cell(det, blobs[j]), j)
    ELSE best_track(det, blobs, used, j + 1, min_dist, best)

\* _match_detections: assignments as a sequence, one position of blobs
\* per detection, 0 for a detection without an assignment
RECURSIVE match_loop(_, _, _, _, _)
match_loop(dets, blobs, i, used, assignments) ==
    IF i > Len(dets) \/ Cardinality(used) >= Len(blobs) THEN assignments
    ELSE LET best == best_track(dets[i], blobs, used, 1, Infinity, 0)
         IN  IF best > 0
             THEN match_loop(dets, blobs, i + 1, used \cup {best},
                             [assignments EXCEPT ![i] = best])
             ELSE match_loop(dets, blobs, i + 1, used, assignments)

match_detections(dets, blobs) ==
    IF blobs = <<>> \/ dets = <<>> THEN [i \in 1..Len(dets) |-> 0]
    ELSE match_loop(dets, blobs, 1, {}, [i \in 1..Len(dets) |-> 0])

b_next_id_same(n) == n

\* self.next_id += 1
b_next_id(n) == n + 1

\* the loop over the detections of update: a matched detection overwrites
\* its entry, an unmatched one appends the entry next_id; the result is the
\* dict, the counter and the returned mapping in insertion order
RECURSIVE update_loop(_, _, _, _, _, _)
update_loop(dets, assignments, i, blobs, n, active) ==
    IF i > Len(dets) THEN [blobs |-> blobs, next_id |-> n, active |-> active]
    ELSE LET det == dets[i]
             c == <<det[1], det[2]>>
         IN  IF assignments[i] > 0
             THEN update_loop(dets, assignments, i + 1,
                      [blobs EXCEPT ![assignments[i]] =
                          [id |-> @.id, center |-> c, area |-> det[3], age |-> 0]],
                      n,
                      Append(active, [id |-> blobs[assignments[i]].id, center |-> c]))
             ELSE update_loop(dets, assignments, i + 1,
                      Append(blobs, [id |-> n, center |-> c, area |-> det[3],
                                     age |-> 0]),
                      b_next_id(n),
                      Append(active, [id |-> n, center |-> c]))

\* BlobTracker.update(dets)
BlobUpdateWith(dets) ==
    \E aged \in {age_blobs(tracked_blobs)} :
    \E assignments \in {match_detections(dets, aged)} :
    \E r \in {update_loop(dets, assignments, 1, aged, next_id, <<>>)} :
        /\ tracked_blobs' = r.blobs
        /\ next_id' = r.next_id
        /\ active_tracks' = r.active
        /\ centroids' = dets
        /\ b_last' = "update"
        /\ b_calls' = b_calls + 1
        /\ b_issued' = b_issued \o [k \in 1..(r.next_id - next_id) |-> next_id + k - 1]
        /\ b_prev_active' = active_tracks
        /\ b_empty_run' = IF dets = <<>> THEN Min(b_empty_run + 1, max_age + 1)
                          ELSE 0
        /\ b_evicted' = b_evicted \cup
              {[id |-> tracked_blobs[k].id, center |-> tracked_blobs[k].center] :
                  k \in {l \in 1..Len(tracked_blobs) :
                            evicted(tracked_blobs[l].age + 1)}}
        /\ UNCHANGED max_age

BlobUpdate ==
    /\ b_calls < MaxCalls
    /\ \E dets \in CentroidLists : BlobUpdateWith(dets)
    /\ UNCHANGED <<trackerVars, assignVars, convertVars, pipelineVars, cameraVars>>

b_reset_next_id_kept(n) == n

\* self.next_id = 0
b_reset_next_id(n) == 0

\* BlobTracker.reset
BlobResetCall ==
    /\ tracked_blobs' = <<>>
    /\ next_id' = b_reset_next_id(next_id)
    /\ active_tracks' = <<>>
    /\ centroids' = <<>>
    /\ b_last' = "reset"
    /\ b_calls' = 0
    /\ b_issued' = <<>>
    /\ b_prev_active' = <<>>
    /\ b_empty_run' = 0
    /\ b_evicted' = {}
    /\ UNCHANGED max_age

BlobReset ==
    /\ BlobResetCall
    /\ UNCHANGED <<trackerVars, assignVars, convertVars, pipelineVars, cameraVars>>

FallbackInit ==
    /\ TrackerIdle
    /\ LAP_AVAILABLE = FALSE
    /\ AssignIdle
    /\ max_age = MaxAge
    /\ BlobFresh
    /\ ConvertIdle
    /\ bytetrack_ready = FALSE
    /\ PipelineIdle
    /\ CameraIdle

FallbackNext == BlobUpdate \/ BlobReset

SpecFallback == FallbackInit /\ [][FallbackNext]_vars

\* ============================================== the id reconciliation
\* three 10 x 10 boxes: the first two overlap, the third is 200 away
BoxFar == <<200, 0, 210, 10>>

FrameBoxes == {BoxA, BoxB, BoxFar}

\* the BlobInfo process_image builds for a rectangular contour on box b
\* (its id is assigned later): bbox is (x, y, w, h)
blob_of_box(b) ==
    [bbox |-> <<b[1], b[2], b[3] - b[1], b[4] - b[2]>>,
     center |-> <<(b[1] + b[3]) \div 2, (b[2] + b[4]) \div 2>>,
     area |-> (b[3] - b[1]) * (b[4] - b[2]),
     polygon |-> <<  <<b[1], b[2]>>, <<b[3], b[2]>>, <<b[3], b[4]>>, <<b[1], b[4]>>  >>]

FrameBlobs == {blob_of_box(b) : b \in FrameBoxes}

BlobLists == UNION {[1..n -> FrameBlobs] : n \in 0..MaxBlobs}

\* a fourth box whose centre is exactly 100 from the centre of BoxA and of
\* BoxFar and 96 from that of BoxB
BoxEdge == <<100, 0, 110, 10>>

\* the lists of original blobs offered to the reconciliation
ConvertBlobLists ==
    UNION {[1..n -> FrameBlobs \cup {blob_of_box(BoxEdge)}] : n \in 0..MaxBlobs}

\* lists of tracks with distinct ids, as update returns them
TrackLists ==
    UNION {{[k \in 1..n |-> NewTrack(ids[k], [bbox |-> bs[k], score |-> 9], 1)] :
               ids \in {f \in [1..n -> 0..MaxBlobs] :
                           \A i, k \in 1..n : i # k => f[i] # f[k]},
               bs \in [1..n -> FrameBoxes]} : n \in 0..MaxBlobs}

\* Track.get_center
get_center(t) == <<t.mean[1], t.mean[2]>>

\* the scan for the nearest blob that is not used: a later blob replaces
\* the best one only when it is strictly nearer; the result is the index
\* (0 for best_blob = None) and the squared min_distance
RECURSIVE nearest_blob(_, _, _, _, _, _)
nearest_blob(c, blobs, used, i, min_distance, best) ==
    IF i > Len(blobs) THEN <<best, min_distance>>
    ELSE IF i \notin used /\ distance_sq(c, blobs[i].center) < min_distance
    THEN nearest_blob(c, blobs, used, i + 1,
                      distance_sq(c, blobs[i].center), i)
    ELSE nearest_blob(c, blobs, used, i + 1, min_distance, best)

\* the BlobInfo with the track's id and the geometry of original blob idx;
\* src stands for the identity of the contour object it shares with it
bound_blob(t, blobs, idx) ==
    [id |-> t.track_id, bbox |-> blobs[idx].bbox, center |-> blobs[idx].center,
     area |-> blobs[idx].area, polygon |-> blobs[idx].polygon, src |-> idx]

predicted_blob_dropped(t) == <<>>

\* the BlobInfo made from the track's predicted box (src 0: no original)
predicted_blob(t) ==
    LET b == get_bbox(t)
        x == b[1]
        y == b[2]
        w == b[3] - b[1]
        h == b[4] - b[2]
    IN  <<[id |-> t.track_id, bbox |-> <<x, y, w, h>>, center |-> get_center(t),
           area |-> w * h,
           polygon |-> <<  <<x, y>>, <<x + w, y>>, <<x + w, y + h>>, <<x, y + h>>  >>,
           src |-> 0]>>

mark_used_forgets(used, idx) == used

\* used_blobs.add(best_blob_idx)
mark_used(used, idx) == used \cup {idx}

within_radius_inclusive(d2) == d2 <= association_radius * association_radius

\* min_distance < 100, on the squared distance
within_radius(d2) == d2 < association_radius * association_radius

RECURSIVE convert_loop(_, _, _, _, _)
convert_loop(tracks, blobs, k, used, out) ==
    IF k > Len(tracks) THEN out
    ELSE LET near == nearest_blob(get_center(tracks[k]), blobs, used, 1,
                                  Infinity, 0)
         IN  IF near[1] > 0 /\ within_radius(near[2])
             THEN convert_loop(tracks, blobs, k + 1, mark_used(used, near[1]),
                               Append(out, bound_blob(tracks[k], blobs, near[1])))
             ELSE convert_loop(tracks, blobs, k + 1, used,
                               out \o predicted_blob(tracks[k]))

\* _convert_tracks_to_blobs
convert_tracks_to_blobs(tracks, original_blobs) ==
    convert_loop(tracks, original_blobs, 1, {}, <<>>)

ConvertInit ==
    /\ TrackerIdle
    /\ LAP_AVAILABLE = FALSE
    /\ AssignIdle
    /\ FallbackIdle
    /\ c_tracks \in TrackLists
    /\ c_blobs \in ConvertBlobLists
    /\ c_out = <<>>
    /\ bytetrack_ready = FALSE
    /\ PipelineIdle
    /\ CameraIdle

ConvertCall ==
    /\ c_out' = <<convert_tracks_to_blobs(c_tracks, c_blobs)>>
    /\ UNCHANGED <<c_tracks, c_blobs>>
    /\ UNCHANGED <<trackerVars, assignVars, fallbackVars, pipelineVars, cameraVars>>

ConvertNext == ConvertCall

SpecConvert == ConvertInit /\ [][ConvertNext]_vars

\* ======================================= ImageProcessor.process_image
\* from the list of blobs on: frames of at most MaxBlobs rectangular blobs,
\* with tracking on or off, ByteTrack asked for or not, and an exception
\* raised in the try block or not
Faults == {"none", "update", "convert"}

\* max(0.6, min(1.0, area / 5000.0)) in tenths, rounded down (the score is
\* only compared with track_thresh, which is below 0.6)
blob_confidence(area) == Max(6, Min(10, (10 * area) \div 5000))

\* _convert_blobs_to_detections: (x, y, w, h) becomes (x1, y1, x2, y2)
convert_blobs_to_detections(blobs) ==
    [i \in 1..Len(blobs) |->
        [bbox |-> <<blobs[i].bbox[1], blobs[i].bbox[2],
                    blobs[i].bbox[1] + blobs[i].bbox[3],
                    blobs[i].bbox[2] + blobs[i].bbox[4]>>,
         score |-> blob_confidence(blobs[i].area)]]

\* detections.append((center[0], center[1], area))
centroid_detections(blobs) ==
    [i \in 1..Len(blobs) |->
        <<blobs[i].center[1], blobs[i].center[2], blobs[i].area>>]

\* the id of the first entry of tracked within 1 of c on both axes, -1
\* when there is none
RECURSIVE first_tracked_id(_, _, _)
first_tracked_id(c, tracked, k) ==
    IF k > Len(tracked) THEN -1
    ELSE IF Abs(c[1] - tracked[k].center[1]) < 1
            /\ Abs(c[2] - tracked[k].center[2]) < 1
    THEN tracked[k].id
    ELSE first_tracked_id(c, tracked, k + 1)

\* a frame's blob with its id; src is its place in the frame's list
with_id(blobs, i, id) ==
    [id |-> id, bbox |-> blobs[i].bbox, center |-> blobs[i].center,
     area |-> blobs[i].area, polygon |-> blobs[i].polygon, src |-> i]

\* _assign_simple_ids: the blob's list index when no entry is near
assign_simple_ids(blobs, dets, tracked) ==
    [i \in 1..Len(blobs) |->
        LET id == first_tracked_id(<<dets[i][1], dets[i][2]>>, tracked, 1)
        IN  with_id(blobs, i, IF id = -1 THEN i - 1 ELSE id)]

assign_index_ids_placeholder(blobs) ==
    [i \in 1..Len(blobs) |-> with_id(blobs, i, -1)]

\* blob.id = i for tracking switched off
assign_index_ids(blobs) ==
    [i \in 1..Len(blobs) |-> with_id(blobs, i, i - 1)]

runs_fallback_unhandled(enabled, attempt, fault) == enabled /\ ~attempt

\* BlobTracker.update runs in the else branch and in the except clause
runs_fallback(enabled, attempt, fault) ==
    enabled /\ (~attempt \/ fault # "none")

\* one call of process_image; enabled is track_ids and the track_ids
\* entry of blob_config, use_bytetrack is the entry of blob_config, fault
\* says whether bytetrack_tracker.update raises (before it changes the
\* tracker) or _convert_tracks_to_blobs raises
ProcessImage ==
    /\ p_frames < MaxImages
    /\ \E blobs \in BlobLists, enabled \in BOOLEAN, use_bytetrack \in BOOLEAN,
          fault \in Faults :
       \E attempt \in {enabled /\ use_bytetrack /\ bytetrack_ready} :
       \E fallback \in {runs_fallback(enabled, attempt, fault)} :
        /\ ~attempt => fault = "none"
        /\ ~enabled => ~use_bytetrack
        /\ IF attempt /\ fault # "update"
           THEN UpdateWith(convert_blobs_to_detections(blobs))
           ELSE UNCHANGED trackerVars
        /\ IF fallback
           THEN BlobUpdateWith(centroid_detections(blobs))
           ELSE UNCHANGED fallbackVars
        /\ p_out' = IF fallback
                    THEN assign_simple_ids(blobs, centroid_detections(blobs),
                                           active_tracks')
                    ELSE IF attempt /\ fault = "none"
                    THEN convert_tracks_to_blobs(returned', blobs)
                    ELSE assign_index_ids(blobs)
        /\ p_path' = IF fallback THEN "fallback"
                     ELSE IF attempt /\ fault = "none" THEN "bytetrack"
                     ELSE "index"
        /\ p_blobs' = blobs
        /\ p_attempted' = attempt
        /\ p_fault' = fault
        /\ p_prev_fault' = p_fault
        /\ p_request' = [track_ids |-> enabled, use_bytetrack |-> use_bytetrack]
        /\ p_frames' = p_frames + 1
        /\ UNCHANGED <<bytetrack_ready, assignVars, convertVars, cameraVars>>

\* ImageProcessor.reset_tracker; the history of the frames starts again
ResetTracker ==
    /\ BlobResetCall
    /\ IF bytetrack_ready THEN ResetCall ELSE UNCHANGED trackerVars
    /\ p_blobs' = <<>>
    /\ p_out' = <<>>
    /\ p_path' = "none"
    /\ p_attempted' = FALSE
    /\ p_fault' = "none"
    /\ p_prev_fault' = "none"
    /\ p_request' = [track_ids |-> FALSE, use_bytetrack |-> FALSE]
    /\ p_frames' = 0
    /\ UNCHANGED <<bytetrack_ready, assignVars, convertVars, cameraVars>>

\* ImageProcessor.__init__, then initialize_bytetrack or not; with lap
\* imported _associate can return the solver's results and, when the solver
\* raises, the greedy one
PipelineInit ==
    /\ TrackerIdle
    /\ LAP_AVAILABLE = TRUE
    /\ AssignIdle
    /\ FallbackIdle
    /\ ConvertIdle
    /\ bytetrack_ready \in BOOLEAN
    /\ PipelineIdle
    /\ CameraIdle

PipelineNext == ProcessImage \/ ResetTracker

SpecPipeline == PipelineInit /\ [][PipelineNext]_vars

\* ===================================================== CameraManager
\* the capture thread started by start_capture and one thread that calls
\* get_frame, interleaved statement by statement; the operations of the
\* Queue are atomic (it locks itself).  A read that fails changes nothing
\* and is left out.
nonCameraVars == <<trackerVars, assignVars, fallbackVars, convertVars,
                   pipelineVars>>

queue_full_never(q) == FALSE

\* Queue.put_nowait raises Full
queue_full(q) == Len(q) >= maxsize

\* ret, frame = self.cap.read() (or picam.capture_array())
CaptureRead ==
    /\ k_pc = "read"
    /\ k_captured < MaxCaptures
    /\ k_captured' = k_captured + 1
    /\ k_frame' = k_captured + 1
    /\ k_pc' = "put"
    /\ UNCHANGED <<frame_queue, frame_count, dropped_frames, k_handled,
                   g_pc, g_frame, g_seen, g_result, g_calls>>
    /\ UNCHANGED nonCameraVars

\* self.frame_queue.put_nowait(frame.copy()): appends, or raises Full
CapturePut ==
    /\ k_pc = "put"
    /\ IF queue_full(frame_queue)
       THEN /\ k_pc' = "drop"
            /\ UNCHANGED frame_queue
       ELSE /\ k_pc' = "count"
            /\ frame_queue' = Append(frame_queue, k_frame)
    /\ k_handled' = k_frame
    /\ UNCHANGED <<frame_count, dropped_frames, k_frame, k_captured,
                   g_pc, g_frame, g_seen, g_result, g_calls>>
    /\ UNCHANGED nonCameraVars

\* self.frame_count += 1 (and the rest of the iteration)
CaptureCount ==
    /\ k_pc = "count"
    /\ frame_count' = frame_count + 1
    /\ k_pc' = "read"
    /\ UNCHANGED <<frame_queue, dropped_frames, k_frame, k_captured, k_handled,
                   g_pc, g_frame, g_seen, g_result, g_calls>>
    /\ UNCHANGED nonCameraVars

\* except: self.dropped_frames += 1 (and the rest of the iteration)
CaptureDrop ==
    /\ k_pc = "drop"
    /\ dropped_frames' = dropped_frames + 1
    /\ k_pc' = "read"
    /\ UNCHANGED <<frame_queue, frame_count, k_frame, k_captured, k_handled,
                   g_pc, g_frame, g_seen, g_result, g_calls>>
    /\ UNCHANGED nonCameraVars

\* get_frame is called: frame = None
GetStart ==
    /\ g_pc = "idle"
    /\ g_calls < MaxGets
    /\ g_calls' = g_calls + 1
    /\ g_frame' = 0
    /\ g_seen' = k_handled
    /\ g_pc' = "test"
    /\ UNCHANGED <<frame_queue, frame_count, dropped_frames, k_pc, k_frame,
                   k_captured, k_handled, g_result>>
    /\ UNCHANGED nonCameraVars

\* while not self.frame_queue.empty()
GetTest ==
    /\ g_pc = "test"
    /\ g_pc' = IF frame_queue = <<>> THEN "return" ELSE "get"
    /\ UNCHANGED <<frame_queue, frame_count, dropped_frames, k_pc, k_frame,
                   k_captured, k_handled, g_frame, g_seen, g_result, g_calls>>
    /\ UNCHANGED nonCameraVars

\* frame = self.frame_queue.get_nowait(), or Empty and break
GetGet ==
    /\ g_pc = "get"
    /\ IF frame_queue = <<>>
       THEN /\ g_pc' = "return"
            /\ UNCHANGED <<frame_queue, g_frame>>
       ELSE /\ g_frame' = Head(frame_queue)
            /\ frame_queue' = Tail(frame_queue)
            /\ g_pc' = "test"
    /\ UNCHANGED <<frame_count, dropped_frames, k_pc, k_frame, k_captured,
                   k_handled, g_seen, g_result, g_calls>>
    /\ UNCHANGED nonCameraVars

\* return frame
GetReturn ==
    /\ g_pc = "return"
    /\ g_result' = g_frame
    /\ g_pc' = "idle"
    /\ UNCHANGED <<frame_queue, frame_count, dropped_frames, k_pc, k_frame,
                   k_captured, k_handled, g_frame, g_seen, g_calls>>
    /\ UNCHANGED nonCameraVars

CameraInit ==
    /\ TrackerIdle
    /\ LAP_AVAILABLE = FALSE
    /\ AssignIdle
    /\ FallbackIdle
    /\ ConvertIdle
    /\ bytetrack_ready = FALSE
    /\ PipelineIdle
    /\ CameraIdle

CameraNext ==
    \/ CaptureRead \/ CapturePut \/ CaptureCount \/ CaptureDrop
    \/ GetStart \/ GetTest \/ GetGet \/ GetReturn

SpecCamera == CameraInit /\ [][CameraNext]_vars

\* ================================================================ claims
TrackIds(ts) == {ts[i].track_id : i \in 1..Len(ts)}
Pools == <<tracked_tracks, lost_tracks, removed_tracks>>
\* in how many places of the three pools a track with this id sits
PoolSlots == UNION {{<<p, i>> : i \in 1..Len(Pools[p])} : p \in 1..3}
Occurrences(id) ==
    Cardinality({s \in PoolSlots : Pools[s[1]][s[2]].track_id = id})
HighAccepted(d) == d.score >= track_thresh /\ bbox_area(d.bbox) >= min_box_area

\* C1: the tracks one update call returns have pairwise distinct track_id,
\* and the ids given out since construction or the last reset are strictly
\* increasing in the order of issue, so no id is given out twice.
C1_IdsUniqueAndIncreasing ==
    /\ \A i, j \in 1..Len(returned) :
          i # j => returned[i].track_id # returned[j].track_id
    /\ \A i, j \in 1..Len(issued) : i < j => issued[i] < issued[j]
    /\ \A i \in 1..Len(issued) : issued[i] < track_id_count

\* two tracks are returned by one call after an earlier track was dropped
C1_Witness ==
    /\ Len(returned) = 2
    /\ Len(issued) >= 3
    /\ \E id \in Range(issued) : id \notin TrackIds(returned)

\* C2 (as claimed): a lone track that saw k calls without any detection,
\* 1 <= k <= track_buffer, and is then offered its last box with a high
\* score is returned with its old id and no id is issued; an id is issued
\* for that detection only when k >= track_buffer + 1.
C2_OcclusionTolerance ==
    occl.re_id # -1 =>
        /\ occl.re_k <= track_buffer =>
              /\ occl.re_id \in TrackIds(returned)
              /\ occl.re_new = 0
        /\ occl.re_new > 0 => occl.re_k >= track_buffer + 1

\* C3 (as claimed): after every update call each track created since
\* construction or the last reset is in exactly one of the three pools.
C3_ExactlyOnePool ==
    \A id \in Range(issued) : Occurrences(id) = 1

\* C4 (as claimed): the concrete scenario with track_buffer = 2.  Frame 1
\* returns one Tracked track 0, frame 2 returns it with tracklet_len 2,
\* after frames 3 and 4 it is Lost and in lost_tracks and nothing is
\* returned, after frame 5 it has left lost_tracks and nothing is returned,
\* frame 6 returns a single track with id 1.
C4_Scenario ==
    track_buffer = 2 =>
        /\ scen = 1 => /\ Len(returned) = 1
                       /\ returned[1].track_id = 0
                       /\ returned[1].state = Tracked
        /\ scen = 2 => /\ Len(returned) = 1
                       /\ returned[1].track_id = 0
                       /\ returned[1].tracklet_len = 2
        /\ scen \in {3, 4} =>
                       /\ returned = <<>>
                       /\ \E i \in 1..Len(lost_tracks) :
                             /\ lost_tracks[i].track_id = 0
                             /\ lost_tracks[i].state = Lost
        /\ scen = 5 => /\ returned = <<>>
                       /\ 0 \notin TrackIds(lost_tracks)
                       /\ \A i \in 1..Len(removed_tracks) :
                             removed_tracks[i].track_id = 0 =>
                                 removed_tracks[i].state = Removed
        /\ scen = 6 => /\ Len(returned) = 1
                       /\ returned[1].track_id = 1

\* C5: while every call since construction had the same single detection,
\* of high score and accepted area, each call returns exactly one track,
\* always track 0, whose tracklet_len is the number of calls.
C5_SingleDetectionStability ==
    (/\ last_op = "update" /\ uniform /\ Len(detections) = 1
     /\ HighAccepted(detections[1]))
    => /\ Len(returned) = 1
       /\ returned[1].track_id = 0
       /\ returned[1].tracklet_len = calls
       /\ returned[1].bbox = detections[1].bbox

C5_Witness ==
    /\ last_op = "update" /\ uniform /\ Len(detections) = 1
    /\ HighAccepted(detections[1])
    /\ calls >= 3
    /\ returned[1].tracklet_len = calls

\* C6: a track that has gone unmatched for more than track_buffer calls is
\* in neither live pool, and the id of a track that is in neither live pool
\* is never carried by a returned track again: every returned track either
\* was live before the call or carries an id never issued before.
C6_NewIdAfterExpiry ==
    [][calls' = calls + 1 =>
        /\ \A p \in 1..2 : \A i \in 1..Len(Pools'[p]) :
              frame_id' - Pools'[p][i].frame_id <= track_buffer
        /\ \A i \in 1..Len(returned') :
              \/ returned'[i].track_id \in TrackIds(tracked_tracks)
                                           \cup TrackIds(lost_tracks)
              \/ returned'[i].track_id \notin Range(issued)]_vars

\* the last box of a track that was unmatched for more than track_buffer
\* calls came back and the track returned for it has another id
C6_Witness ==
    /\ occl.re_id # -1
    /\ occl.re_k > track_buffer
    /\ Len(returned) = 1
    /\ returned[1].bbox = detections[1].bbox
    /\ returned[1].track_id # occl.re_id

\* C7: update([]) on a tracker without active tracks returns the empty
\* list, adds exactly 1 to frame_id and leaves track_id_count and the three
\* pools as they were.
C7_EmptyInputIdempotence ==
    [][(calls' = calls + 1 /\ detections' = <<>> /\ tracked_tracks = <<>>) =>
        /\ returned' = <<>>
        /\ frame_id' = frame_id + 1
        /\ track_id_count' = track_id_count
        /\ tracked_tracks' = tracked_tracks
        /\ lost_tracks' = lost_tracks
        /\ removed_tracks' = removed_tracks]_vars

\* update([]) was called on a tracker that had issued ids but had no
\* active track
C7_Witness ==
    /\ last_op = "update" /\ detections = <<>> /\ returned = <<>>
    /\ occl.k >= 2
    /\ track_id_count >= 1

\* C8: a high-score detection whose area equals min_box_area is taken up by
\* a returned track; no track that was matched, created or revived in this
\* call, and no entry of the association record, comes from a detection
\* whose area is below min_box_area.
C8_MinAreaFilter ==
    last_op = "update" =>
        /\ \A i \in 1..Len(detections) :
              (/\ bbox_area(detections[i].bbox) = min_box_area
               /\ detections[i].score >= track_thresh)
              => \E a \in assoc : a.det = i /\ a.track_id \in TrackIds(returned)
        /\ \A a \in assoc : bbox_area(detections[a.det].bbox) >= min_box_area
        /\ \A p \in 1..2 : \A i \in 1..Len(Pools[p]) :
              Pools[p][i].frame_id = frame_id =>
                  bbox_area(Pools[p][i].bbox) >= min_box_area

\* one detection of exactly the minimum area was taken up while another
\* one below the minimum was in the same list
C8_Witness ==
    /\ last_op = "update"
    /\ \E i, j \in 1..Len(detections) :
          /\ bbox_area(detections[i].bbox) = min_box_area
          /\ bbox_area(detections[j].bbox) < min_box_area
          /\ detections[j].score >= track_thresh
          /\ \E a \in assoc : a.det = i
    /\ Len(returned) = 1

\* C9: every track created in this call comes from a detection of this call
\* with score >= track_thresh that matched no existing track in the high or
\* low stage, and is born Tracked with tracklet_len 1 and start_frame =
\* frame_id = the current frame; a detection below track_thresh creates none.
C9_CreationOnlyFromUnmatchedHigh ==
    last_op = "update" =>
        /\ \A a \in assoc : a.stage = "new" =>
              /\ detections[a.det].score >= track_thresh
              /\ ~\E b \in assoc : b.det = a.det /\ b.stage \in {"high", "low", "revive"}
        /\ \A p \in 1..3 : \A i \in 1..Len(Pools[p]) :
              Pools[p][i].start_frame = frame_id =>
                  /\ Pools[p][i].state = Tracked
                  /\ Pools[p][i].tracklet_len = 1
                  /\ Pools[p][i].frame_id = frame_id
                  /\ \E a \in assoc :
                        /\ a.stage = "new"
                        /\ a.track_id = Pools[p][i].track_id
                        /\ detections[a.det].bbox = Pools[p][i].bbox
                        /\ detections[a.det].score = Pools[p][i].score

\* a track was created from one detection while a low-score detection of
\* the same call, accepted by the area filter, was left unused
C9_Witness ==
    /\ last_op = "update"
    /\ \E a \in assoc : a.stage = "new"
    /\ \E i \in 1..Len(detections) :
          /\ detections[i].score < track_thresh
          /\ bbox_area(detections[i].bbox) >= min_box_area
          /\ ~\E a \in assoc : a.det = i

\* C11: reset() leaves the tracker in the state of a freshly constructed one
\* with the same configuration: the three pools empty, frame_id and
\* track_id_count 0, track_buffer, min_box_area and the solver flag (the
\* thresholds are fixed) untouched; and the update call that follows a reset
\* numbers its frame 1 and numbers the tracks it creates 0, 1, ... as the
\* first call on a fresh tracker does.
FreshTracker == <<0, <<>>, <<>>, <<>>, 0>>

C11_ResetAsFresh ==
    [][/\ last_op' = "reset" => tracker' = FreshTracker /\ config' = config
       /\ last_op \in {"init", "reset"} /\ last_op' = "update" =>
             /\ tracker = FreshTracker
             /\ frame_id' = 1
             /\ issued' = [k \in 1..track_id_count' |-> k - 1]]_vars

C11_Witness ==
    /\ last_op = "reset"
    /\ tracker = FreshTracker
    /\ min_box_area = 100

\* C13: with an empty track list or an empty detection list both routines
\* return the trivial result: no match, every detection index in the
\* unmatched detections and every track index in the unmatched tracks.
TrivialResult(rows, cols) ==
    [matched |-> <<>>, unmatched_detections |-> [j \in 1..cols |-> j],
     unmatched_tracks |-> [i \in 1..rows |-> i]]

C13_TrivialOnEmpty ==
    (a_rows = 0 \/ a_cols = 0) =>
        /\ a_result # <<>> => a_result[1] = TrivialResult(a_rows, a_cols)
        /\ a_greedy # <<>> => a_greedy[1] = TrivialResult(a_rows, a_cols)

\* C15: when lapjv raises inside _associate the call returns what
\* _greedy_assignment returns on the same cost matrix and threshold (a
\* result, not an exception), and the raise leaves nothing behind: the call
\* after it calls lapjv again whenever lap is imported and neither list is
\* empty.
C15_SolverFailureLocal ==
    /\ a_raise => a_result = <<greedy_assignment(a_cost, a_rows, a_cols, a_thresh)>>
    /\ a_result # <<>> =>
          a_attempted = (LAP_AVAILABLE /\ a_rows # 0 /\ a_cols # 0)

C15_Witness ==
    /\ a_prev_raise
    /\ a_attempted
    /\ ~a_raise
    /\ a_rows = 2 /\ a_cols = 2
    /\ a_result[1].matched # <<>>

\* the ids of a sequence of records with an id field
IdsOf(recs) == {recs[k].id : k \in 1..Len(recs)}

\* C18: without a reset the fallback tracker gives out the ids 0, 1, 2, ...
\* in that order, one per created entry (so each new id is greater than all
\* ids given out before, evicted or not); the first call of a fresh tracker
\* gives its detections the ids 0, 1, ... in detection order.
C18_FallbackIdsMonotonic ==
    /\ b_issued = [k \in 1..Len(b_issued) |-> k - 1]
    /\ next_id = Len(b_issued)
    /\ \A k \in 1..Len(tracked_blobs) : tracked_blobs[k].id < next_id
    /\ \A k, l \in 1..Len(tracked_blobs) :
          k < l => tracked_blobs[k].id < tracked_blobs[l].id
    /\ b_calls = 1 =>
          active_tracks = [i \in 1..Len(centroids) |->
                              [id |-> i - 1,
                               center |-> <<centroids[i][1], centroids[i][2]>>]]

\* ids 0 and 1 were given out and evicted, then a detection got id 2
C18_Witness ==
    /\ b_issued = <<0, 1, 2>>
    /\ IdsOf(tracked_blobs) = {2}
    /\ IdsOf(active_tracks) = {2}

\* the one-to-one maps from the detections of a call to the entries the
\* call before returned that put every detection within max_distance of
\* the centre it is mapped to
Redetections(dets, prev) ==
    {pi \in [1..Len(dets) -> 1..Len(prev)] :
        /\ \A i, k \in 1..Len(dets) : i # k => pi[i] # pi[k]
        /\ \A i \in 1..Len(dets) :
              distance_sq(dets[i], prev[pi[i]].center)
                  <= max_distance * max_distance}

\* C19: when a call has as many detections as the call before returned
\* ids, every one of them within max_distance of the previous centre of a
\* different one of those entries, and no entry is evicted by the call, the
\* call returns the same set of ids as the call before.
C19_TrackingConsistency ==
    [][(/\ b_last = "update" /\ b_last' = "update"
        /\ Len(centroids') = Len(active_tracks)
        /\ \A k \in 1..Len(tracked_blobs) : ~evicted(tracked_blobs[k].age + 1)
        /\ Redetections(centroids', active_tracks) # {})
       => IdsOf(active_tracks') = IdsOf(active_tracks)]_vars

\* C19 amended: as C19, and every detection is strictly nearer to the
\* previous centre of its own entry than to the centre of any other stored
\* entry; then every detection keeps the id of its entry.
C19_ConsistencyWhenNearest ==
    [][(/\ b_last = "update" /\ b_last' = "update"
        /\ Len(centroids') = Len(active_tracks)
        /\ \A k \in 1..Len(tracked_blobs) : ~evicted(tracked_blobs[k].age + 1))
       => \A pi \in Redetections(centroids', active_tracks) :
            (\A i \in 1..Len(centroids') : \A k \in 1..Len(tracked_blobs) :
                tracked_blobs[k].id # active_tracks[pi[i]].id =>
                    distance_sq(centroids'[i], active_tracks[pi[i]].center)
                        < distance_sq(centroids'[i], tracked_blobs[k].center))
            => /\ IdsOf(active_tracks') = IdsOf(active_tracks)
               /\ \A i \in 1..Len(centroids') :
                     active_tracks'[i].id = active_tracks[pi[i]].id]_vars

\* the second call of a tracker: the first call returned two entries, both
\* are detected again in the same order, at least one of them has moved,
\* each is within max_distance of its own previous centre and strictly
\* nearer to it than to the other one, and the call returned the same ids
C19_Witness ==
    /\ b_last = "update"
    /\ b_calls = 2
    /\ Len(b_prev_active) = 2
    /\ Len(centroids) = 2
    /\ \E k \in 1..2 : active_tracks[k].center # b_prev_active[k].center
    /\ \A k \in 1..2 :
          /\ distance_sq(centroids[k], b_prev_active[k].center)
                <= max_distance * max_distance
          /\ distance_sq(centroids[k], b_prev_active[k].center)
                < distance_sq(centroids[k], b_prev_active[3 - k].center)
          /\ active_tracks[k].id = b_prev_active[k].id

\* C20: a call adds 1 to the age of every entry and deletes the entries
\* whose age then exceeds max_age before it matches (a deleted entry is not
\* returned); an entry that stays is either matched (age 0, returned) or
\* one call older.  So no stored entry is older than max_age, and after
\* more than max_age calls in a row without detections nothing is stored
\* and the call returns the empty mapping.
C20_AgingAndEviction ==
    [][b_calls' = b_calls + 1 =>
        /\ \A k \in 1..Len(tracked_blobs) :
              LET b == tracked_blobs[k]
              IN  IF b.age + 1 > max_age
                  THEN b.id \notin IdsOf(tracked_blobs')
                       /\ b.id \notin IdsOf(active_tracks')
                  ELSE \E l \in 1..Len(tracked_blobs') :
                          /\ tracked_blobs'[l].id = b.id
                          /\ \/ tracked_blobs'[l].age = b.age + 1
                                /\ b.id \notin IdsOf(active_tracks')
                             \/ tracked_blobs'[l].age = 0
                                /\ b.id \in IdsOf(active_tracks')
        /\ \A l \in 1..Len(tracked_blobs') : tracked_blobs'[l].age <= max_age
        /\ b_empty_run' > max_age =>
              tracked_blobs' = <<>> /\ active_tracks' = <<>>]_vars

\* an entry was created and max_age + 1 calls without detections followed
C20_Witness ==
    /\ b_empty_run = max_age + 1
    /\ b_calls = max_age + 2
    /\ next_id = 2
    /\ tracked_blobs = <<>>

\* C16: _convert_tracks_to_blobs returns one record per track, in track
\* order, each with its track's id, whatever the original blobs are (none
\* included); a track without a near original blob gets a record too.
C16_OneRecordPerTrack ==
    c_out # <<>> =>
        /\ Len(c_out[1]) = Len(c_tracks)
        /\ \A k \in 1..Len(c_tracks) : c_out[1][k].id = c_tracks[k].track_id

\* two tracks, the second with no original blob in reach
C16_Witness ==
    /\ c_out # <<>>
    /\ Len(c_tracks) = 2
    /\ c_blobs # <<>>
    /\ c_out[1][1].src # 0
    /\ c_out[1][2].src = 0

\* C17: no two records of one call that were made by binding share their
\* original blob.
C17_BlobBoundOnce ==
    c_out # <<>> =>
        \A k, l \in 1..Len(c_out[1]) :
            (k # l /\ c_out[1][k].src # 0) => c_out[1][k].src # c_out[1][l].src

\* two tracks at the same place and two blobs, the first blob nearest to
\* both: the second track is bound to the second blob
C17_Witness ==
    /\ c_out # <<>>
    /\ Len(c_tracks) = 2
    /\ get_center(c_tracks[1]) = get_center(c_tracks[2])
    /\ Len(c_blobs) = 2
    /\ c_blobs[1].center = get_center(c_tracks[1])
    /\ c_out[1][1].src = 1
    /\ c_out[1][2].src = 2

\* C14: when BYTETracker.update or the conversion raises inside
\* process_image, the call still returns: it has called BlobTracker.update
\* once, with the centroid detections of the frame, every returned blob is
\* the frame's blob with the id of the entry that call returned for its
\* centre; and whatever raised before, a call with tracking and ByteTrack
\* asked for enters the try block again while the tracker exists.
C14_FallbackOnException ==
    [][p_frames' = p_frames + 1 =>
        /\ (p_attempted' /\ p_fault' # "none") =>
              /\ p_path' = "fallback"
              /\ b_calls' = b_calls + 1
              /\ centroids' = centroid_detections(p_blobs')
              /\ Len(p_out') = Len(p_blobs')
              /\ \A i \in 1..Len(p_out') :
                    /\ p_out'[i] = with_id(p_blobs', i, p_out'[i].id)
                    /\ \E k \in 1..Len(active_tracks') :
                          /\ active_tracks'[k].id = p_out'[i].id
                          /\ active_tracks'[k].center = p_blobs'[i].center
        /\ p_attempted' = (/\ p_request'.track_ids
                           /\ p_request'.use_bytetrack
                           /\ bytetrack_ready)]_vars

\* the conversion raised in a frame of two blobs right after a frame in
\* which update had raised, and the tracker had already tracked something
C14_Witness ==
    /\ p_fault = "convert"
    /\ p_prev_fault = "update"
    /\ p_attempted
    /\ p_path = "fallback"
    /\ Len(p_out) = 2
    /\ frame_id = 2
    /\ b_calls = 2

\* C21: once an entry has been deleted for its age, a detection at exactly
\* its old centre never gets its id again: the id is neither returned nor
\* stored by any later call.
C21_NewIdAfterLoss ==
    \A e \in b_evicted :
        /\ e.id \notin IdsOf(tracked_blobs)
        /\ \A i \in 1..Len(active_tracks) :
              active_tracks[i].center = e.center => active_tracks[i].id # e.id

\* test_new_detection_after_loss: one detection, more than max_age calls
\* without detections, the same detection again
C21_Witness ==
    /\ b_evicted = {[id |-> 0, center |-> <<50, 0>>]}
    /\ b_calls = max_age + 3
    /\ centroids = <<  <<50, 0, 1000>>  >>
    /\ active_tracks = <<[id |-> 1, center |-> <<50, 0>>]>>

\* C22: BlobTracker.reset leaves no entry and next_id 0 and does not touch
\* max_age (max_distance is fixed), which is the state of a new tracker;
\* the call after it returns nothing for no detections and otherwise
\* numbers its detections 0, 1, ..., and whenever the first entry since the
\* reset is created it gets the id 0.
C22_BlobResetAsFresh ==
    [][/\ b_last' = "reset" =>
             tracked_blobs' = <<>> /\ next_id' = 0 /\ max_age' = max_age
       /\ b_last = "reset" /\ b_last' = "update" =>
             /\ centroids' = <<>> => active_tracks' = <<>> /\ tracked_blobs' = <<>>
             /\ \A i \in 1..Len(active_tracks') : active_tracks'[i].id = i - 1
       /\ b_issued = <<>> /\ b_issued' # <<>> =>
             /\ tracked_blobs = <<>>
             /\ Head(b_issued') = 0
             /\ tracked_blobs'[1].id = 0]_vars

C22_Witness ==
    /\ b_last = "reset"
    /\ tracked_blobs = <<>>
    /\ next_id = 0
    /\ max_age = MaxAge

\* C23: no blob process_image returns has a negative id, on the ByteTrack
\* path, on the fallback path and with tracking switched off.
C23_NoPlaceholderId ==
    \A i \in 1..Len(p_out) : p_out[i].id >= 0

\* a frame of two blobs with tracking switched off, after a frame on the
\* ByteTrack path and a frame on the fallback path
C23_Witness ==
    /\ p_path = "index"
    /\ Len(p_out) = 2
    /\ frame_id = 1
    /\ b_calls = 1
    /\ p_frames = 3

C26_UpdatedAtMostOnce ==
    [][last_op' = "update" =>
        /\ \A a, b \in assoc' : a.track_id = b.track_id => a = b
        /\ \A k \in 1..Len(tracked_tracks) : \A l \in 1..Len(tracked_tracks') :
              tracked_tracks'[l].track_id = tracked_tracks[k].track_id =>
                  tracked_tracks'[l].tracklet_len
                      <= tracked_tracks[k].tracklet_len + 1
        /\ \A p \in 1..3 : \A l \in 1..Len(Pools'[p]) :
              Pools'[p][l].tracklet_len
                  <= frame_id' - Pools'[p][l].start_frame + 1]_vars

\* a track in its third frame, matched in every frame, the last time by a
\* low-score detection after the high-score detection went to another track
C26_Witness ==
    /\ last_op = "update"
    /\ frame_id = 3
    /\ \E k \in 1..Len(tracked_tracks) :
          /\ tracked_tracks[k].tracklet_len = 3
          /\ tracked_tracks[k].start_frame = 1
          /\ \E a \in assoc : a.track_id = tracked_tracks[k].track_id
                               /\ a.stage = "low"
    /\ \E a \in assoc : a.stage = "high"

\* C27: the filter of update puts every detection that passes the area
\* filter into exactly one of its two lists, the high-confidence list when
\* score >= track_thresh and the low-confidence list when score <
\* track_thresh, puts the others into neither, and both lists keep the
\* order of the argument.
C27_FilterPartitions ==
    last_op = "update" =>
        \A f \in {filter_detections(detections, min_box_area)} :
            /\ \A i \in 1..Len(detections) :
                  /\ i \in Range(f.valid) <=>
                        /\ area_accepted(detections[i], min_box_area)
                        /\ detections[i].score >= track_thresh
                  /\ i \in Range(f.low) <=>
                        /\ area_accepted(detections[i], min_box_area)
                        /\ detections[i].score < track_thresh
                  /\ ~(i \in Range(f.valid) /\ i \in Range(f.low))
            /\ \A k, l \in 1..Len(f.valid) : k < l => f.valid[k] < f.valid[l]
            /\ \A k, l \in 1..Len(f.low) : k < l => f.low[k] < f.low[l]

\* a low-score detection ahead of a high-score one, both large enough
C27_Witness ==
    /\ last_op = "update"
    /\ detections = <<[bbox |-> BoxA, score |-> 4], [bbox |-> BoxB, score |-> 9]>>
    /\ min_box_area = 100
    /\ filter_detections(detections, min_box_area) = [valid |-> <<2>>, low |-> <<1>>]

\* C29: _greedy_assignment returns a one-to-one matching whose pairs all
\* cost at most thresh; each pair is the cheapest cell among the rows and
\* columns left when it is committed, so the costs of the pairs never
\* decrease; on return one side is used up or every cell of an unmatched
\* row and an unmatched column costs more than thresh; no more than
\* min(rows, columns) pairs are committed.
C29_GreedyMatching ==
    a_greedy # <<>> =>
        \A g \in {a_greedy[1]} :
        \A m \in {g.matched} :
            /\ \A k, l \in 1..Len(m) :
                  k # l => m[k][1] # m[l][1] /\ m[k][2] # m[l][2]
            /\ \A k \in 1..Len(m) :
                  /\ m[k][1] \in 1..a_rows
                  /\ m[k][2] \in 1..a_cols
                  /\ CostWithin(a_cost[m[k][1]][m[k][2]], a_thresh)
                  /\ \A i \in 1..a_rows : \A j \in 1..a_cols :
                        (\A l \in 1..(k - 1) : m[l][1] # i /\ m[l][2] # j) =>
                            ~CostLess(a_cost[i][j], a_cost[m[k][1]][m[k][2]])
            /\ \A k, l \in 1..Len(m) :
                  k < l => ~CostLess(a_cost[m[l][1]][m[l][2]],
                                     a_cost[m[k][1]][m[k][2]])
            /\ \/ g.unmatched_tracks = <<>>
               \/ g.unmatched_detections = <<>>
               \/ \A i \in Range(g.unmatched_tracks) :
                     \A j \in Range(g.unmatched_detections) :
                        ~CostWithin(a_cost[i][j], a_thresh)
            /\ Len(m) <= Min(a_rows, a_cols)

\* two commits on a 2 x 2 matrix, the cheaper cell (2, 1) before (1, 2)
C29_Witness ==
    /\ a_rows = 2 /\ a_cols = 2
    /\ a_thresh = second_thresh
    /\ a_cost[2][1] = <<0, 1>>
    /\ a_cost[1][2] = <<1, 2>>
    /\ a_greedy # <<>>
    /\ a_greedy[1].matched = << <<2, 1>>, <<1, 2>> >>

\* how often the index n occurs in the pairs (at place side) and in the list
IndexCount(matched, side, unmatched, n) ==
    Cardinality({k \in 1..Len(matched) : matched[k][side] = n})
        + Cardinality({k \in 1..Len(unmatched) : unmatched[k] = n})

\* C30: for a non-empty track list and a non-empty detection list the
\* result of _associate, from the solver or from the greedy assignment,
\* holds every track index exactly once in the pairs or the unmatched
\* tracks, every detection index exactly once in the pairs or the
\* unmatched detections, and no other index.
C30_AssociatePartitions ==
    (a_result # <<>> /\ a_rows # 0 /\ a_cols # 0) =>
        \A r \in {a_result[1]} :
            /\ \A i \in 1..a_rows :
                  IndexCount(r.matched, 1, r.unmatched_tracks, i) = 1
            /\ \A j \in 1..a_cols :
                  IndexCount(r.matched, 2, r.unmatched_detections, j) = 1
            /\ Len(r.matched) + Len(r.unmatched_tracks) = a_rows
            /\ Len(r.matched) + Len(r.unmatched_detections) = a_cols

\* the solver's result on a 2 x 2 matrix with one pair within the
\* threshold: one match, one unmatched track, one unmatched detection
C30_Witness ==
    /\ a_rows = 2 /\ a_cols = 2
    /\ a_attempted /\ ~a_raise
    /\ a_result # <<>>
    /\ Len(a_result[1].matched) = 1
    /\ Len(a_result[1].unmatched_tracks) = 1
    /\ Len(a_result[1].unmatched_detections) = 1

\* the original blobs no earlier record of out is bound to
FreeBlobs(out, k) ==
    {i \in 1..Len(c_blobs) : \A l \in 1..(k - 1) : out[l].src # i}

\* C31: _convert_tracks_to_blobs serves the tracks in list order; each track
\* looks at the original blobs no earlier track of the call is bound to,
\* takes the one nearest to its centre (the first of several equally near)
\* and is bound to it iff the distance is strictly below 100; otherwise its
\* record has the bbox and the four-corner polygon of the track's box.
C31_NearestFreeBlob ==
    c_out # <<>> =>
        \A out \in {c_out[1]} :
            /\ Len(out) = Len(c_tracks)
            /\ \A k \in 1..Len(out) :
                \A free \in {FreeBlobs(out, k)} :
                \A c \in {get_center(c_tracks[k])} :
                \A near \in {{i \in free : \A j \in free :
                                distance_sq(c, c_blobs[i].center)
                                    <= distance_sq(c, c_blobs[j].center)}} :
                \A bind \in {\E i \in near :
                                distance_sq(c, c_blobs[i].center) < 100 * 100} :
                    /\ out[k].id = c_tracks[k].track_id
                    /\ bind =>
                          /\ out[k].src \in near
                          /\ \A i \in near : out[k].src <= i
                          /\ out[k].bbox = c_blobs[out[k].src].bbox
                          /\ out[k].center = c_blobs[out[k].src].center
                          /\ out[k].polygon = c_blobs[out[k].src].polygon
                    /\ ~bind =>
                          \A b \in {get_bbox(c_tracks[k])} :
                              /\ out[k].src = 0
                              /\ out[k].bbox = <<b[1], b[2], b[3] - b[1], b[4] - b[2]>>
                              /\ out[k].center = c
                              /\ out[k].polygon =
                                    << <<b[1], b[2]>>, <<b[3], b[2]>>,
                                       <<b[3], b[4]>>, <<b[1], b[4]>> >>

\* first come, first served: the track on BoxA takes the blob on BoxB, the
\* nearest one, and the track on BoxB, whose own blob is gone, finds the
\* blob on BoxEdge 96 away and is bound to it
C31_Witness ==
    /\ c_out # <<>>
    /\ Len(c_tracks) = 2
    /\ get_bbox(c_tracks[1]) = BoxA
    /\ get_bbox(c_tracks[2]) = BoxB
    /\ c_blobs = <<blob_of_box(BoxEdge), blob_of_box(BoxB)>>
    /\ c_out[1][1].src = 2
    /\ c_out[1][2].src = 1

\* C32: in a call of BlobTracker.update the returned mapping has one entry
\* per detection, in detection order, with pairwise distinct ids (so no
\* stored entry is given to two detections); an id that a stored entry had
\* before the call is returned only for a detection within max_distance of
\* that entry's centre, and the entry was not aged out; every other
\* returned id is newly issued; and a stored entry that survives the call
\* without its id being returned was not matched: it keeps its centre and
\* its age has grown by one.
C32_MatchWithinDistance ==
    [][b_last' = "update" =>
        /\ Len(active_tracks') = Len(centroids')
        /\ \A i, j \in 1..Len(active_tracks') :
              i # j => active_tracks'[i].id # active_tracks'[j].id
        /\ \A i \in 1..Len(active_tracks') :
              /\ active_tracks'[i].center = <<centroids'[i][1], centroids'[i][2]>>
              /\ \/ \E k \in 1..Len(tracked_blobs) :
                       /\ tracked_blobs[k].id = active_tracks'[i].id
                       /\ tracked_blobs[k].age + 1 <= max_age
                       /\ distance_sq(centroids'[i], tracked_blobs[k].center)
                             <= max_distance * max_distance
                 \/ /\ active_tracks'[i].id \notin IdsOf(tracked_blobs)
                    /\ active_tracks'[i].id >= next_id
                    /\ active_tracks'[i].id < next_id'
        /\ \A k \in 1..Len(tracked_blobs') :
              \/ /\ tracked_blobs'[k].id \in IdsOf(active_tracks')
                 /\ tracked_blobs'[k].age = 0
              \/ /\ tracked_blobs'[k].id \notin IdsOf(active_tracks')
                 /\ \E l \in 1..Len(tracked_blobs) :
                       /\ tracked_blobs[l].id = tracked_blobs'[k].id
                       /\ tracked_blobs[l].center = tracked_blobs'[k].center
                       /\ tracked_blobs'[k].age = tracked_blobs[l].age + 1]_vars

\* the second call offers two detections exactly max_distance from the one
\* stored entry: the first is given its id, the second a new one
C32_Witness ==
    /\ b_last = "update"
    /\ b_calls = 2
    /\ b_prev_active = <<[id |-> 0, center |-> <<0, 0>>]>>
    /\ centroids = << <<50, 0, 1000>>, <<50, 0, 1000>> >>
    /\ active_tracks = <<[id |-> 0, center |-> <<50, 0>>],
                         [id |-> 1, center |-> <<50, 0>>]>>

\* the tracker followed for MaxTwinFrames calls, each of its states compared
\* with a second tracker in the same state but for the covariance
TwinUpdate == calls < MaxTwinFrames /\ Update

TwinNext == TwinUpdate \/ Reset

SpecTwin == Init /\ [][TwinNext]_vars

\* the tracks ts with other covariance values: the covariance of the track
\* with id n is multiplied by 1.1^(n + 1)
OtherCovariance(ts) ==
    [i \in 1..Len(ts) |-> [ts[i] EXCEPT !.cov = @ + ts[i].track_id + 1]]

\* the tracks ts without their covariance
NoCovariance(ts) == [i \in 1..Len(ts) |-> [ts[i] EXCEPT !.cov = 0]]

\* what a call of update returned and left behind, covariance aside
Observable(o) ==
    [o EXCEPT !.tracked_tracks = NoCovariance(@),
              !.lost_tracks = NoCovariance(@),
              !.removed_tracks = NoCovariance(@),
              !.returned = NoCovariance(@)]

\* C33: the covariance is inert.  In every state the tracker reaches, a
\* second tracker with the same configuration whose tracks differ from its
\* tracks only in their covariance answers every detection list alike: the
\* same matches, track ids, states and boxes are returned and stored, so
\* the two differ again only in covariance after the call, and so on for
\* every sequence of detection lists.
C33_CovarianceInert ==
    \A dets \in DetectionLists :
        {Observable(o) :
            o \in update_outcomes(tracked_tracks, lost_tracks, removed_tracks,
                                  track_id_count, frame_id, min_box_area,
                                  track_buffer, LAP_AVAILABLE, dets)}
        = {Observable(o) :
            o \in update_outcomes(OtherCovariance(tracked_tracks),
                                  OtherCovariance(lost_tracks),
                                  OtherCovariance(removed_tracks),
                                  track_id_count, frame_id, min_box_area,
                                  track_buffer, LAP_AVAILABLE, dets)}

\* two tracks that predict() has run on twice, both matched in the last call
C33_Witness ==
    /\ last_op = "update"
    /\ Len(tracked_tracks) = 2
    /\ \A k \in 1..2 :
          /\ tracked_tracks[k].cov = 2
          /\ \E a \in assoc : a.track_id = tracked_tracks[k].track_id
                               /\ a.stage = "high"
    /\ OtherCovariance(tracked_tracks) # tracked_tracks

\* C34: the capture thread never blocks on the frame buffer.  Whatever
\* get_frame is doing, the queue never holds more than 2 frames, the put can
\* always be taken at once, and a put on a full queue leaves the queue as it
\* is (the new frame is discarded) and is followed by dropped_frames += 1
\* with frame_count unchanged.
C34_CaptureNeverBlocks ==
    [][/\ Len(frame_queue') <= maxsize
       /\ k_pc = "put" => ENABLED CapturePut
       /\ (k_pc = "put" /\ k_pc' # "put" /\ Len(frame_queue) = maxsize) =>
              /\ k_pc' = "drop"
              /\ frame_queue' = frame_queue
              /\ k_frame \notin Range(frame_queue')
       /\ (k_pc = "drop" /\ k_pc' # "drop") =>
              /\ dropped_frames' = dropped_frames + 1
              /\ frame_count' = frame_count
       /\ (k_pc = "count" /\ k_pc' # "count") =>
              /\ frame_count' = frame_count + 1
              /\ dropped_frames' = dropped_frames]_vars

\* the third frame was dropped on the full queue while get_frame was between
\* its test of the queue and its get
C34_Witness ==
    /\ k_captured = 3
    /\ k_pc = "read"
    /\ dropped_frames = 1
    /\ frame_count = 2
    /\ frame_queue = <<1, 2>>
    /\ g_pc = "get"

\* C35: latest frame wins.  A get_frame call that returns a frame returns
\* none older than the last frame the capture thread had handed to the
\* queue when the call started.
C35_LatestFrameWins ==
    (g_pc = "idle" /\ g_calls > 0 /\ g_result # 0) => g_result >= g_seen

\* C36: at the end of every update call tracked_tracks is the returned
\* list, each of its tracks has state TRACKED and frame_id equal to the
\* tracker's frame_id, having been matched or created in this call, so the
\* active_tracks count of get_stats is the length of the returned list.
C36_ActiveAreReturned ==
    last_op = "update" =>
        /\ tracked_tracks = returned
        /\ \A k \in 1..Len(tracked_tracks) :
              /\ tracked_tracks[k].state = Tracked
              /\ tracked_tracks[k].frame_id = frame_id
              /\ \E a \in assoc : a.track_id = tracked_tracks[k].track_id
        /\ Len(tracked_tracks) = Len(returned)

\* the second call matched one of two tracks; the other left the active list
C36_Witness ==
    /\ last_op = "update"
    /\ frame_id = 2
    /\ issued = <<0, 1>>
    /\ Len(returned) = 1
    /\ returned[1].start_frame = 1
    /\ returned[1].frame_id = 2

\* C37: no high-confidence detection is ignored.  At the end of every update
\* call each detection of the call with score >= track_thresh and area >=
\* min_box_area went to exactly one track, by a match of the first stage or
\* by creating it, and that track is returned, exactly once, with the
\* detection's box and score stored in it.
C37_HighDetectionKept ==
    last_op = "update" =>
        \A i \in 1..Len(detections) :
            HighAccepted(detections[i]) =>
                /\ Cardinality({a \in assoc : a.det = i}) = 1
                /\ \A a \in assoc :
                      a.det = i =>
                          /\ a.stage \in {"high", "new"}
                          /\ Cardinality({k \in 1..Len(returned) :
                                returned[k].track_id = a.track_id}) = 1
                          /\ \A k \in 1..Len(returned) :
                                returned[k].track_id = a.track_id =>
                                    /\ returned[k].bbox = detections[i].bbox
                                    /\ returned[k].score = detections[i].score
                                    /\ returned[k].frame_id = frame_id

\* two high-confidence detections in the second call: one matched the track
\* of the first call, the other created a track
C37_Witness ==
    /\ last_op = "update"
    /\ frame_id = 2
    /\ Len(detections) = 2
    /\ \A i \in 1..2 : HighAccepted(detections[i])
    /\ \E a \in assoc : a.stage = "high"
    /\ \E a \in assoc : a.stage = "new"
    /\ Len(returned) = 2

\* C38: in every frame processed with tracking enabled the returned blobs
\* have pairwise distinct ids, on the ByteTrack path and on the fallback
\* path.
C38_DistinctIdsPerFrame ==
    p_path \in {"bytetrack", "fallback"} =>
        \A i, j \in 1..Len(p_out) : i # j => p_out[i].id # p_out[j].id

====
